---- MODULE Spec2Model ----
(***************************************************************************)
(* One rendering pass of src/app.py: upload, read_excel, header strip,     *)
(* schema check, numeric coercion, variance columns, table, KPI metrics,   *)
(* chart, optional Groq insight, Excel download.                           *)
(***************************************************************************)
EXTENDS Integers, Sequences, FiniteSets, TLC

\* ------------------------------------------------------------------ bounds
MaxRows == 2
MaxVal == 1

\* ------------------------------------------------------------------- cells
\* A cell of a sheet or of the dataframe.  t: "num" (the rational n/d),
\* "str" (the text s, a sequence of characters), "nan" (missing),
\* "inf" (a float infinity of sign n).
Num(n) == [t |-> "num", n |-> n, d |-> 1, s |-> <<>>]
Str(chars) == [t |-> "str", n |-> 0, d |-> 1, s |-> chars]
NaN == [t |-> "nan", n |-> 0, d |-> 1, s |-> <<>>]
Inf(sign) == [t |-> "inf", n |-> sign, d |-> 1, s |-> <<>>]

Abs(x) == IF x < 0 THEN -x ELSE x
Sign(x) == IF x < 0 THEN -1 ELSE IF x > 0 THEN 1 ELSE 0

RECURSIVE GCD(_, _)
GCD(a, b) == IF b = 0 THEN a ELSE GCD(b, a % b)

\* The number n/d (d # 0) in lowest terms with a positive denominator.
Frac(n, d) ==
    LET g == GCD(Abs(n), Abs(d))
    IN  [t |-> "num", n |-> (Sign(d) * n) \div g, d |-> Abs(d) \div g, s |-> <<>>]

\* Float arithmetic on cells that hold numbers.
Sub(a, b) == Frac(a.n * b.d - b.n * a.d, a.d * b.d)
Mul(a, b) == Frac(a.n * b.n, a.d * b.d)

\* Float division: x/0 is an infinity or NaN, never an exception.
Div(a, b) ==
    IF b.n = 0
    THEN IF a.n = 0 THEN NaN ELSE Inf(Sign(a.n))
    ELSE Frac(a.n * b.d, a.d * b.n)

\* ----------------------------------------------------------------- headers
\* A header cell: a text with `lead` leading and `trail` trailing blanks
\* around `body`, or (kind "int") a number, which read_excel keeps as a
\* non-string column label.
H(body) == [kind |-> "str", lead |-> 0, body |-> body, trail |-> 0]
Padded(lead, body, trail) == [kind |-> "str", lead |-> lead, body |-> body, trail |-> trail]
IntHeader(body) == [kind |-> "int", lead |-> 0, body |-> body, trail |-> 0]

\* str.strip() of a column label.
strip(c) == [c EXCEPT !.lead = 0, !.trail = 0]

required_cols == <<H("Category"), H("Budget"), H("Actual")>>

\* --------------------------------------------------------------- dataframe
\* A dataframe: column labels, and rows of cells aligned with them.
NoTable == [columns |-> <<>>, rows |-> <<>>]

Range(f) == {f[i] : i \in DOMAIN f}

\* Positions of the columns labelled col.
Positions(d, col) == {j \in DOMAIN d.columns : d.columns[j] = col}

ThePosition(d, col) == CHOOSE j \in Positions(d, col) : TRUE

\* df[col] for a label that names exactly one column: the Series.
Column(d, col) == [i \in DOMAIN d.rows |-> d.rows[i][ThePosition(d, col)]]

\* df[col] = series: replaces the column in place when the label exists,
\* appends a new last column otherwise.
SetColumn(d, col, series) ==
    IF Positions(d, col) # {}
    THEN [d EXCEPT !.rows = [i \in DOMAIN d.rows |->
                [j \in DOMAIN d.columns |->
                    IF j \in Positions(d, col) THEN series[i] ELSE d.rows[i][j]]]]
    ELSE [columns |-> Append(d.columns, col),
          rows |-> [i \in DOMAIN d.rows |-> Append(d.rows[i], series[i])]]

\* ------------------------------------------------------------------ sheets
\* A workbook sheet: a header row and body rows.  A sheet cell is a number,
\* a text or empty.
Empty == [t |-> "empty", n |-> 0, d |-> 1, s |-> <<>>]

\* pd.read_excel: the header row becomes the column labels (texts keep their
\* blanks, numbers stay numbers), empty cells become NaN.
read_excel(sheet) ==
    [columns |-> sheet.header,
     rows |-> [i \in DOMAIN sheet.body |->
                [j \in DOMAIN sheet.body[i] |->
                    IF sheet.body[i][j].t = "empty" THEN NaN ELSE sheet.body[i][j]]]]

\* Variant: to_excel with the default index=True, which writes the row index
\* as a first column under an empty header.
to_excel_index(d) ==
    [header |-> <<H("")>> \o d.columns,
     body |-> [i \in DOMAIN d.rows |->
                <<Num(i - 1)>> \o
                [j \in DOMAIN d.rows[i] |->
                    IF d.rows[i][j].t = "nan" THEN Empty ELSE d.rows[i][j]]]]

\* df.to_excel(writer, index=False): header row, then the rows in order;
\* a NaN is written as an empty cell.
to_excel(d) ==
    [header |-> d.columns,
     body |-> [i \in DOMAIN d.rows |->
                [j \in DOMAIN d.rows[i] |->
                    IF d.rows[i][j].t = "nan" THEN Empty ELSE d.rows[i][j]]]]

\* -------------------------------------------------------- numeric coercion
Digits == <<"0", "1", "2", "3", "4", "5", "6", "7", "8", "9">>

IsDigit(c) == \E k \in DOMAIN Digits : Digits[k] = c

DigitValue(c) == (CHOOSE k \in DOMAIN Digits : Digits[k] = c) - 1

RECURSIVE DigitsValue(_)
DigitsValue(chars) ==
    IF chars = <<>> THEN 0
    ELSE 10 * DigitsValue(SubSeq(chars, 1, Len(chars) - 1)) + DigitValue(chars[Len(chars)])

AllDigits(chars) == chars # <<>> /\ \A k \in DOMAIN chars : IsDigit(chars[k])

\* The number a text spells (an optional minus sign, then digits), or NaN.
ParseNumber(chars) ==
    IF AllDigits(chars) THEN Num(DigitsValue(chars))
    ELSE IF chars # <<>> /\ chars[1] = "-" /\ AllDigits(Tail(chars))
         THEN Num(-DigitsValue(Tail(chars)))
         ELSE NaN

\* pd.to_numeric(series, errors="coerce"), cell by cell.
to_numeric_cell(c) ==
    IF c.t = "str" THEN ParseNumber(c.s) ELSE c

to_numeric(series) == [i \in DOMAIN series |-> to_numeric_cell(series[i])]

\* series.fillna(value)
fillna(series, value) ==
    [i \in DOMAIN series |-> IF series[i].t = "nan" THEN value ELSE series[i]]

\* One iteration of the loop of lines 50-51 on a label naming one column.
ConvertColumn(d, col) ==
    SetColumn(d, col, fillna(to_numeric(Column(d, col)), Num(0)))

\* df[col] is a DataFrame, not a Series, when the label names several columns.
IsFrame(d, col) == Cardinality(Positions(d, col)) > 1

\* ---------------------------------------------------------------- variance
\* df["Actual"] - df["Budget"]
VarianceSeries(d) ==
    [i \in DOMAIN d.rows |-> Sub(Column(d, H("Actual"))[i], Column(d, H("Budget"))[i])]

\* Variant: the percentage without the np.where mask on a zero Budget.
VariancePctUnmasked(d) ==
    LET budget == Column(d, H("Budget"))
        variance == Column(d, H("Variance"))
    IN  [i \in DOMAIN d.rows |->
            LET q == Div(variance[i], budget[i])
            IN  IF q.t = "num" THEN Mul(q, Num(100)) ELSE q]

\* np.where(df["Budget"] == 0, np.nan, (df["Variance"] / df["Budget"]) * 100):
\* both branches are evaluated for every row, then selected by the mask.
VariancePctSeries(d) ==
    LET budget == Column(d, H("Budget"))
        variance == Column(d, H("Variance"))
        ratio == [i \in DOMAIN d.rows |->
                    LET q == Div(variance[i], budget[i])
                    IN  IF q.t = "num" THEN Mul(q, Num(100)) ELSE q]
    IN  [i \in DOMAIN d.rows |-> IF budget[i].n = 0 THEN NaN ELSE ratio[i]]

\* series.sum()
RECURSIVE SumSeq(_)
SumSeq(series) ==
    IF series = <<>> THEN Num(0)
    ELSE LET rest == SumSeq(SubSeq(series, 1, Len(series) - 1))
             last == series[Len(series)]
         IN  Frac(rest.n * last.d + last.n * rest.d, rest.d * last.d)

\* Variant: the total percentage falling back to NaN, like the per-row one.
TotalVarPctNull(tv, tb) ==
    IF tb.n # 0 THEN Mul(Div(tv, tb), Num(100)) ELSE NaN

\* (total_variance / total_budget * 100) if total_budget != 0 else 0
TotalVarPct(tv, tb) ==
    IF tb.n # 0 THEN Mul(Div(tv, tb), Num(100)) ELSE Num(0)

\* round(x * 10^places) to the nearest integer, ties to even: the digits a
\* format specification ".0f" / ".2f" prints.
RECURSIVE Pow10(_)
Pow10(places) == IF places = 0 THEN 1 ELSE 10 * Pow10(places - 1)

Fixed(x, places) ==
    LET n == x.n * Pow10(places)
        q == n \div x.d
        r == n % x.d
    IN  IF 2 * r > x.d THEN q + 1
        ELSE IF 2 * r < x.d THEN q
        ELSE IF q % 2 = 0 THEN q ELSE q + 1

\* px.bar(df, x="Category", y="Variance"): one bar per row, in row order.
BarInput(d) ==
    [i \in DOMAIN d.rows |->
        [x |-> Column(d, H("Category"))[i], y |-> Column(d, H("Variance"))[i]]]

\* ----------------------------------------------------------------- uploads
\* Header rows of the uploaded sheets.
Layouts ==
    { <<H("Category"), H("Budget"), H("Actual")>>,
      <<Padded(0, "Category", 1), Padded(1, "Budget", 1), H("Actual"), H("Note")>>,
      <<H("Category"), H("Variance %"), H("Budget"), H("Variance"), H("Actual")>>,
      <<H("Category"), H("Budget")>>,
      <<Padded(1, "Kategori", 0), H("Budget"), H("Actual")>>,
      <<H("Category"), H("Budget"), Padded(1, "Budget", 0), H("Actual")>>,
      <<IntHeader("2023"), H("Budget"), H("Actual")>>,
      <<H("Category"), H("Budget"), H("Actual"), IntHeader("2023")>> }

ValidLayouts == { <<H("Category"), H("Budget"), H("Actual")>> }

Numbers == (-1)..MaxVal

\* Cells of the Budget and Actual columns.
AmountCells ==
    {Num(n) : n \in Numbers}
        \cup {Str(<<"a", "b", "c">>), Str(<<"1", "2">>), Empty}

FewAmountCells == {Num(MaxVal), Str(<<"a", "b", "c">>), Empty}

CategoryLabel(i) ==
    IF i % 2 = 1 THEN <<"S", "u", "p", "p", "l", "i", "e", "s">> ELSE <<"R", "e", "n", "t">>

\* The cell of row i under header h, given the row's Budget and Actual cells.
CellFor(h, i, b, a) ==
    CASE h.body = "Budget" -> b
      [] h.body = "Actual" -> a
      [] h.body \in {"Category", "Kategori"} -> Str(CategoryLabel(i))
      [] h.body = "Note" -> IF i % 2 = 1 THEN Str(<<"o", "k">>) ELSE Empty
      [] h.body = "Variance" -> Num(7)
      [] h.body = "Variance %" -> IF i % 2 = 1 THEN Empty ELSE Num(7)
      [] OTHER -> Num(i)

\* The sheet with the given header row and n body rows, pick[i] being the
\* Budget and Actual cells of row i.
SheetOf(header, n, pick) ==
    [header |-> header,
     body |-> [i \in 1..n |->
                [j \in DOMAIN header |-> CellFor(header[j], i, pick[i][1], pick[i][2])]]]

NoSheet == [header |-> <<>>, body |-> <<>>]

NoFile == [present |-> FALSE, cause |-> "", sheet |-> NoSheet]

\* A payload read_excel cannot parse, with the cause it raises.
Unreadable == [present |-> TRUE, cause |-> "BadZipFile", sheet |-> NoSheet]

Workbook(sheet) == [present |-> TRUE, cause |-> "", sheet |-> sheet]

\* os.getenv("GROQ_API_KEY"): None, or a string
NoKey == [set |-> FALSE, value |-> ""]
Key(v) == [set |-> TRUE, value |-> v]
Truthy(k) == k.set /\ k.value # ""

\* What client.chat.completions.create can return.
NoResponse == [choices |-> <<>>]
Responses == {[choices |-> <<>>], [choices |-> <<"insight">>]}

\* ------------------------------------------------------------------- state
VARIABLES
    pc,              \* the next statement of the script
    GROQ_AVAILABLE,  \* lines 9-13
    GROQ_API_KEY,    \* line 16
    uploaded_file,   \* line 29
    df,              \* the dataframe
    total_budget, total_actual, total_variance, total_var_pct,
    page,            \* the elements rendered so far, in order
    shown,           \* the data given to st.dataframe
    metrics,         \* the digits of the three st.metric cards
    chart,           \* the bars given to st.plotly_chart
    requests,        \* the prompts sent to the remote service
    res,             \* the response of the remote service
    exc,             \* the exception raised and not yet handled, or ""
    download         \* the data given to st.download_button

vars == <<pc, GROQ_AVAILABLE, GROQ_API_KEY, uploaded_file, df, total_budget,
          total_actual, total_variance, total_var_pct, page, shown, metrics,
          chart, requests, res, exc, download>>

totals == <<total_budget, total_actual, total_variance, total_var_pct>>
outputs == <<shown, metrics, chart, download>>
remote == <<requests, res>>
config == <<GROQ_AVAILABLE, GROQ_API_KEY>>

El(kind, text, detail) == [kind |-> kind, text |-> text, detail |-> detail]

NoMetrics == [budget |-> 0, actual |-> 0, variance |-> 0, delta |-> 0]

Start ==
    /\ pc = "upload"
    /\ uploaded_file = NoFile
    /\ df = NoTable
    /\ total_budget = Num(0) /\ total_actual = Num(0)
    /\ total_variance = Num(0) /\ total_var_pct = Num(0)
    /\ page = << El("title", "Aplikasi Konsultan Usaha UMKM", ""),
                 El("write", "Analisis Keuangan, Variance, KPI, & Insight Otomatis", "") >>
    /\ shown = NoTable
    /\ metrics = NoMetrics
    /\ chart = <<>>
    /\ requests = <<>>
    /\ res = NoResponse
    /\ exc = ""
    /\ download = NoSheet

Init ==
    /\ GROQ_AVAILABLE \in BOOLEAN
    /\ GROQ_API_KEY \in {NoKey, Key(""), Key("gsk")}
    /\ Start

\* ----------------------------------------------------------------- actions
\* Lines 29-33: the uploader returns a file or nothing; nothing stops the run.
Receive(f) ==
    /\ uploaded_file' = f
    /\ IF ~f.present
       THEN /\ page' = Append(page, El("info", "Silakan upload file Excel Anda.", ""))
            /\ pc' = "stopped"
       ELSE /\ page' = page
            /\ pc' = "read"

Upload(payloads, layouts, cells) ==
    /\ pc = "upload"
    /\ \E h \in {<<>>} \cup layouts, n \in 0..MaxRows :
        \E pick \in [1..n -> cells \X cells] :
            IF h = <<>>
            THEN n = 0 /\ \E f \in payloads : Receive(f)
            ELSE Receive(Workbook(SheetOf(h, n, pick)))
    /\ UNCHANGED <<config, df, totals, outputs, remote, exc>>

UploadAny == Upload({NoFile, Unreadable}, Layouts, FewAmountCells)

\* Lines 35-39: read_excel; a failure is reported and stops the run.
ReadExcel ==
    /\ pc = "read"
    /\ IF uploaded_file.cause # ""
       THEN /\ page' = Append(page, El("error", "Gagal membaca Excel", uploaded_file.cause))
            /\ pc' = "stopped"
            /\ df' = df
       ELSE /\ df' = read_excel(uploaded_file.sheet)
            /\ pc' = "strip"
            /\ page' = page
    /\ UNCHANGED <<config, uploaded_file, totals, outputs, remote, exc>>

\* Line 42: c.strip() for every label; a label that is no string has no
\* strip and raises AttributeError, which nothing catches.
StripColumns ==
    /\ pc = "strip"
    /\ IF \E j \in DOMAIN df.columns : df.columns[j].kind # "str"
       THEN /\ exc' = "AttributeError"
            /\ pc' = "crashed"
            /\ df' = df
       ELSE /\ df' = [df EXCEPT !.columns = [j \in DOMAIN df.columns |-> strip(df.columns[j])]]
            /\ pc' = "validate"
            /\ exc' = exc
    /\ UNCHANGED <<config, uploaded_file, totals, page, outputs, remote>>

\* Lines 44-47
ValidateSchema ==
    /\ pc = "validate"
    /\ IF ~(\A k \in DOMAIN required_cols : required_cols[k] \in Range(df.columns))
       THEN /\ page' = Append(page,
                    El("error", "File harus mengandung kolom: Category, Budget, Actual", ""))
            /\ pc' = "stopped"
       ELSE /\ page' = page
            /\ pc' = "numeric"
    /\ UNCHANGED <<config, uploaded_file, df, totals, outputs, remote, exc>>

\* Lines 50-51: the loop over Budget, Actual.  pd.to_numeric raises TypeError
\* on a DataFrame, which is what df[col] is under a duplicated label.
ConvertNumeric ==
    /\ pc = "numeric"
    /\ IF IsFrame(df, H("Budget"))
       THEN /\ exc' = "TypeError"
            /\ pc' = "crashed"
            /\ df' = df
       ELSE LET d1 == ConvertColumn(df, H("Budget"))
            IN  IF IsFrame(d1, H("Actual"))
                THEN /\ exc' = "TypeError"
                     /\ pc' = "crashed"
                     /\ df' = d1
                ELSE /\ df' = ConvertColumn(d1, H("Actual"))
                     /\ pc' = "variance"
                     /\ exc' = exc
    /\ UNCHANGED <<config, uploaded_file, totals, page, outputs, remote>>

\* Lines 54-55
ComputeVariance ==
    /\ pc = "variance"
    /\ LET d1 == SetColumn(df, H("Variance"), VarianceSeries(df))
       IN  df' = SetColumn(d1, H("Variance %"), VariancePctSeries(d1))
    /\ pc' = "dataframe"
    /\ UNCHANGED <<config, uploaded_file, totals, page, outputs, remote, exc>>

\* Lines 57-58
ShowDataframe ==
    /\ pc = "dataframe"
    /\ page' = page \o << El("subheader", "Data & Variance", ""), El("dataframe", "", "") >>
    /\ shown' = df
    /\ pc' = "kpi"
    /\ UNCHANGED <<config, uploaded_file, df, totals, metrics, chart, download, remote, exc>>

\* Lines 61-64
ComputeKPI ==
    /\ pc = "kpi"
    /\ LET tb == SumSeq(Column(df, H("Budget")))
           ta == SumSeq(Column(df, H("Actual")))
           tv == Sub(ta, tb)
       IN  /\ total_budget' = tb
           /\ total_actual' = ta
           /\ total_variance' = tv
           /\ total_var_pct' = TotalVarPct(tv, tb)
    /\ pc' = "metrics"
    /\ UNCHANGED <<config, uploaded_file, df, page, outputs, remote, exc>>

\* Lines 66-69: three metric cards; ",.0f" and ".2f" round for display only.
ShowMetrics ==
    /\ pc = "metrics"
    /\ metrics' = [budget |-> Fixed(total_budget, 0),
                   actual |-> Fixed(total_actual, 0),
                   variance |-> Fixed(total_variance, 0),
                   delta |-> Fixed(total_var_pct, 2)]
    /\ page' = page \o << El("metric", "Total Budget", ""), El("metric", "Total Actual", ""),
                          El("metric", "Total Variance", "") >>
    /\ pc' = "chart"
    /\ UNCHANGED <<config, uploaded_file, df, totals, shown, chart, download, remote, exc>>

\* Lines 72-81
ShowChart ==
    /\ pc = "chart"
    /\ chart' = BarInput(df)
    /\ page' = page \o << El("subheader", "Visualisasi Variance", ""),
                          El("plotly_chart", "Variance per Category", "") >>
    /\ pc' = "gate"
    /\ UNCHANGED <<config, uploaded_file, df, totals, shown, metrics, download, remote, exc>>

\* Variant: the gate written with `and`.
InsightDisabledBoth(available, key) == ~available /\ ~Truthy(key)

\* Line 86: not GROQ_AVAILABLE or not GROQ_API_KEY
InsightDisabled(available, key) == ~available \/ ~Truthy(key)

\* Lines 84-88: the insight block is skipped with a warning unless the
\* library was imported and the key is a non-empty string.
InsightGate ==
    /\ pc = "gate"
    /\ IF InsightDisabled(GROQ_AVAILABLE, GROQ_API_KEY)
       THEN /\ page' = page \o
                    << El("subheader", "Insight Otomatis (AI)", ""),
                       El("warning", "Groq API tidak aktif. Tambahkan GROQ_API_KEY pada .env", "") >>
            /\ pc' = "download"
       ELSE /\ page' = Append(page, El("subheader", "Insight Otomatis (AI)", ""))
            /\ pc' = "client"
    /\ UNCHANGED <<config, uploaded_file, df, totals, outputs, remote, exc>>

\* Line 90, inside try: the constructor returns or raises.
CreateClient ==
    /\ pc = "client"
    /\ \E ok \in BOOLEAN :
        IF ok THEN pc' = "request" /\ exc' = exc
              ELSE pc' = "except" /\ exc' = "GroqError"
    /\ UNCHANGED <<config, uploaded_file, df, totals, page, outputs, remote>>

\* Lines 92-105, inside try: the prompt carries the three totals; the call
\* returns a response or raises.
Request ==
    /\ pc = "request"
    /\ requests' = Append(requests,
            [model |-> "llama-3.1-8b-instant",
             budget |-> total_budget, actual |-> total_actual, variance |-> total_variance])
    /\ \/ \E r \in Responses : res' = r /\ pc' = "write" /\ exc' = exc
       \/ res' = res /\ pc' = "except" /\ exc' = "APIError"
    /\ UNCHANGED <<config, uploaded_file, df, totals, page, outputs>>

\* Variant: the insight text is also stored in the dataframe.
WriteInsightIntoTable ==
    /\ pc = "write"
    /\ IF res.choices = <<>>
       THEN /\ exc' = "IndexError"
            /\ pc' = "except"
            /\ page' = page
            /\ df' = df
       ELSE /\ page' = Append(page, El("write", res.choices[1], ""))
            /\ df' = SetColumn(df, H("Insight"), [i \in DOMAIN df.rows |-> Str(<<res.choices[1]>>)])
            /\ pc' = "download"
            /\ exc' = exc
    /\ UNCHANGED <<config, uploaded_file, totals, outputs, remote>>

\* Line 107, inside try: res.choices[0] raises IndexError on no choices.
WriteInsight ==
    /\ pc = "write"
    /\ IF res.choices = <<>>
       THEN /\ exc' = "IndexError"
            /\ pc' = "except"
            /\ page' = page
       ELSE /\ page' = Append(page, El("write", res.choices[1], ""))
            /\ pc' = "download"
            /\ exc' = exc
    /\ UNCHANGED <<config, uploaded_file, df, totals, outputs, remote>>

\* Variant: the handler stops the run after reporting, as the two structural
\* handlers do.
AIExceptStops ==
    /\ pc = "except"
    /\ page' = Append(page, El("error", "Error AI", exc))
    /\ exc' = ""
    /\ pc' = "stopped"
    /\ UNCHANGED <<config, uploaded_file, df, totals, outputs, remote>>

\* Lines 109-110: the handler reports the exception and falls through.
AIExcept ==
    /\ pc = "except"
    /\ page' = Append(page, El("error", "Error AI", exc))
    /\ exc' = ""
    /\ pc' = "download"
    /\ UNCHANGED <<config, uploaded_file, df, totals, outputs, remote>>

\* Lines 112-128
Download ==
    /\ pc = "download"
    /\ download' = to_excel(df)
    /\ page' = Append(page, El("download_button", "umkm_analysis.xlsx", ""))
    /\ pc' = "done"
    /\ UNCHANGED <<config, uploaded_file, df, totals, shown, metrics, chart, remote, exc>>

Next ==
    \/ UploadAny
    \/ ReadExcel
    \/ StripColumns
    \/ ValidateSchema
    \/ ConvertNumeric
    \/ ComputeVariance
    \/ ShowDataframe
    \/ ComputeKPI
    \/ ShowMetrics
    \/ ShowChart
    \/ InsightGate
    \/ CreateClient
    \/ Request
    \/ WriteInsight
    \/ AIExcept
    \/ Download

Spec == Init /\ [][Next]_vars

\* The computing core on valid workbooks with a wide range of amounts, the
\* insight feature off.
UploadValid == Upload({NoFile}, ValidLayouts, AmountCells)

InitCore ==
    /\ GROQ_AVAILABLE = FALSE
    /\ GROQ_API_KEY = NoKey
    /\ Start

NextCore ==
    \/ UploadValid
    \/ ReadExcel
    \/ StripColumns
    \/ ValidateSchema
    \/ ConvertNumeric
    \/ ComputeVariance
    \/ ShowDataframe
    \/ ComputeKPI
    \/ ShowMetrics

SpecCore == InitCore /\ [][NextCore]_vars

\* ------------------------------------------------------------- vocabulary
Final == {"stopped", "crashed", "done"}

Has(kind, text) == \E i \in DOMAIN page : page[i].kind = kind /\ page[i].text = text

HasKind(kind) == \E i \in DOMAIN page : page[i].kind = kind

Count(kind, text) ==
    Cardinality({i \in DOMAIN page : page[i].kind = kind /\ page[i].text = text})

Last(s) == s[Len(s)]

SchemaMessage == "File harus mengandung kolom: Category, Budget, Actual"

\* The file was parsed as a spreadsheet.
Parsed == uploaded_file.present /\ uploaded_file.cause = "" /\ pc \notin {"upload", "read"}

\* The labels of the uploaded header row, the texts trimmed.
TrimmedLabels == {strip(h) : h \in Range(uploaded_file.sheet.header)}

LacksRequired == \E k \in DOMAIN required_cols : required_cols[k] \notin TrimmedLabels

\* Nothing after the schema check has happened.
NothingDownstream ==
    /\ df.rows = read_excel(uploaded_file.sheet).rows
    /\ totals = <<Num(0), Num(0), Num(0), Num(0)>>
    /\ shown = NoTable /\ metrics = NoMetrics /\ chart = <<>>
    /\ requests = <<>> /\ download = NoSheet
    /\ ~HasKind("dataframe") /\ ~HasKind("metric") /\ ~HasKind("plotly_chart")
    /\ ~HasKind("subheader") /\ ~HasKind("warning") /\ ~HasKind("download_button")

\* ----------------------------------------------------------------- claims
\* C1: every parsed table whose trimmed column set lacks one of Category,
\* Budget, Actual ends its pass in the schema failure: the schema error is
\* shown, the run is stopped there, and no downstream step runs.
C1_SchemaFailure ==
    (Parsed /\ LacksRequired /\ pc \notin {"strip", "validate"}) =>
        /\ pc = "stopped"
        /\ Last(page) = El("error", SchemaMessage, "")
        /\ NothingDownstream

\* C7: an unparseable payload shows an error carrying the cause and halts
\* the pass before anything else happens; a pass that got past parsing is
\* halted by nothing but the schema failure.
C7_OnlyStructuralHalts ==
    /\ (uploaded_file.cause # "" /\ pc \notin {"upload", "read"}) =>
            /\ pc = "stopped"
            /\ Last(page) = El("error", "Gagal membaca Excel", uploaded_file.cause)
            /\ Count("error", "Gagal membaca Excel") = 1
            /\ df = NoTable
            /\ NothingDownstream
    /\ (Parsed /\ pc \in {"stopped", "crashed"}) =>
            /\ pc = "stopped"
            /\ Last(page) = El("error", SchemaMessage, "")

\* The Budget and Actual cells as read_excel delivered them, row i.
RawCell(i, col) ==
    LET raw == read_excel(uploaded_file.sheet)
        j == CHOOSE j \in DOMAIN raw.columns : strip(raw.columns[j]) = col
    IN  raw.rows[i][j]

\* What the claim says a cell becomes: its value if it is or spells a
\* number, 0 if it is another text or missing.
IsNumber(c, value) == c.t = "num" /\ c.n = value * c.d

CellNormalized(raw, cell) ==
    CASE raw.t = "num" -> cell = raw
      [] raw.t = "str" /\ raw.s = <<"1", "2">> -> IsNumber(cell, 12)
      [] OTHER -> IsNumber(cell, 0)

NormalizedCells ==
    \A i \in DOMAIN df.rows : \A col \in {H("Budget"), H("Actual")} :
        \A j \in Positions(df, col) : CellNormalized(RawCell(i, col), df.rows[i][j])

PastNumeric == pc \notin {"upload", "read", "strip", "validate", "numeric"}

\* C6: normalization never fails, and from then on every Budget and Actual
\* cell is a number (its own value if it was or spelt one, else 0), no
\* Variance is NaN and no total is NaN.
C6_NormalizationTotal ==
    (Parsed /\ ~LacksRequired /\ PastNumeric /\ pc # "stopped" /\ exc # "AttributeError") =>
        /\ pc # "crashed"
        /\ NormalizedCells
        /\ Positions(df, H("Variance")) # {} =>
                \A i \in DOMAIN df.rows : Column(df, H("Variance"))[i].t = "num"
        /\ \A k \in 1..4 : totals[k].t = "num"

\* The stage of the pass a position of the script belongs to.  The KPI block
\* (lines 60-69: the totals and their metric cards) is counted with the
\* presentation, where the script has it: after the table, before the chart.
Stage(p) ==
    CASE p \in {"upload", "read", "strip"} -> 1
      [] p = "validate" -> 2
      [] p = "numeric" -> 3
      [] p = "variance" -> 4
      [] p \in {"dataframe", "kpi", "metrics", "chart"} -> 5
      [] p \in {"gate", "client", "request", "write", "except"} -> 6
      [] p = "download" -> 7
      [] OTHER -> 8

\* The statements of the script in program order.
Order ==
    <<"upload", "read", "strip", "validate", "numeric", "variance", "dataframe", "kpi",
      "metrics", "chart", "gate", "client", "request", "write", "except", "download",
      "stopped", "crashed", "done">>

Rank(p) == CHOOSE k \in DOMAIN Order : Order[k] = p

\* The pass has ended the way the claim allows: halted by the parse or the
\* schema error, or with the download rendered.
ProperEnd ==
    \/ pc = "stopped" /\ Last(page).kind \in {"error", "info"}
    \/ pc = "done" /\ Last(page).kind = "download_button"

\* C8: the stages only move forward, no statement runs twice, the remote
\* request is issued at most once, and a pass that can go no further has
\* been halted by a structural error or has rendered the download.
C8_LinearPass ==
    [][ /\ Stage(pc') >= Stage(pc)
        /\ Rank(pc') > Rank(pc)
        /\ Len(requests') <= 1
        /\ Count("error", "Error AI")' <= 1
        /\ (pc' \in Final) => ProperEnd' ]_vars

InsightHeading == "Insight Otomatis (AI)"
WarningMessage == "Groq API tidak aktif. Tambahkan GROQ_API_KEY pada .env"

\* The insight block was entered with the library imported and a key set.
Attempted ==
    /\ GROQ_AVAILABLE /\ GROQ_API_KEY.set /\ GROQ_API_KEY.value # ""
    /\ Has("subheader", InsightHeading)

\* Table, metrics and chart are on the page with the data computed for them.
PresentedIntact ==
    /\ Count("dataframe", "") = 1 /\ shown = df
    /\ Count("metric", "Total Budget") = 1 /\ Count("metric", "Total Actual") = 1
    /\ Count("metric", "Total Variance") = 1
    /\ metrics = [budget |-> Fixed(total_budget, 0), actual |-> Fixed(total_actual, 0),
                  variance |-> Fixed(total_variance, 0), delta |-> Fixed(total_var_pct, 2)]
    /\ Count("plotly_chart", "Variance per Category") = 1 /\ chart = BarInput(df)

\* C2: once the insight step is attempted the pass is never halted; a
\* failure of the constructor, of the call or of reading the response is on
\* its way to the handler, ends as one "Error AI" message carrying the
\* cause, and the download is rendered after it with table, metrics and
\* chart still in place.
C2_InsightFailureIsolated ==
    Attempted =>
        /\ pc \notin {"stopped", "crashed"}
        /\ exc # "" => pc = "except"
        /\ (pc \in {"download", "done"} /\ (requests = <<>> \/ res.choices = <<>>)) =>
                /\ Count("error", "Error AI") = 1
                /\ \A i \in DOMAIN page : page[i].kind = "error" => page[i].detail # ""
                /\ ~Has("write", "insight")
        /\ (pc \in {"download", "done"} /\ res.choices # <<>>) =>
                Has("write", res.choices[1]) /\ ~HasKind("error")
        /\ PresentedIntact
        /\ pc = "done" =>
                Last(page) = El("download_button", "umkm_analysis.xlsx", "") /\ download = to_excel(df)

C2_Witness ==
    /\ pc = "done" /\ Attempted
    /\ Has("error", "Error AI") /\ Last(page).kind = "download_button"
    /\ Len(requests) = 1 /\ Len(df.rows) = MaxRows

NoInsight == GROQ_AVAILABLE = FALSE \/ GROQ_API_KEY = NoKey \/ GROQ_API_KEY.value = ""

PageKinds == [i \in DOMAIN page |-> page[i].kind]

\* The page of a finished pass around the insight block.
PageAroundInsight ==
    /\ Len(page) = 12
    /\ SubSeq(PageKinds, 1, 10) =
            <<"title", "write", "subheader", "dataframe", "metric", "metric", "metric",
              "subheader", "plotly_chart", "subheader">>
    /\ PageKinds[12] = "download_button"

\* C3: with the library unavailable or the key absent or empty no request
\* is ever issued and nothing of the insight block runs; a warning, never
\* an error, is shown; and the finished page holds table, metrics, chart and
\* download exactly as the page of a pass with the feature enabled does.
C3_DisabledSkipsInsight ==
    /\ NoInsight =>
            /\ requests = <<>> /\ res = NoResponse /\ exc \notin {"GroqError", "APIError", "IndexError"}
            /\ pc \notin {"client", "request", "write", "except"}
            /\ ~Has("error", "Error AI") /\ ~Has("write", "insight")
            /\ pc \in {"download", "done"} => Count("warning", WarningMessage) = 1
            /\ pc = "done" => PageKinds[11] = "warning"
    /\ ~NoInsight => ~HasKind("warning")
    /\ pc = "done" => PageAroundInsight /\ PresentedIntact /\ download = to_excel(df)

C3_Witness ==
    /\ pc = "done" /\ GROQ_AVAILABLE /\ GROQ_API_KEY = Key("")
    /\ Has("warning", WarningMessage) /\ Len(df.rows) = MaxRows

\* The variance columns exist.
PastVariance == pc \in {"dataframe", "kpi", "metrics", "chart"}

\* C4: per record Variance = Actual - Budget; Variance % is NaN exactly
\* when Budget = 0 and is Variance / Budget * 100 otherwise; a zero Budget
\* raises nothing.
C4_PerRecordVariance ==
    /\ pc # "crashed"
    /\ PastVariance =>
        \A i \in DOMAIN df.rows :
            LET b == Column(df, H("Budget"))[i]
                a == Column(df, H("Actual"))[i]
                v == Column(df, H("Variance"))[i]
                p == Column(df, H("Variance %"))[i]
            IN  /\ v.t = "num" /\ v.n * a.d * b.d = (a.n * b.d - b.n * a.d) * v.d
                /\ p.t \in {"num", "nan"}
                /\ p.t = "nan" <=> b.n = 0
                /\ b.n # 0 => p.n * b.n * v.d = v.n * 100 * b.d * p.d

C4_Witness ==
    /\ PastVariance
    /\ \E i \in DOMAIN df.rows :
            Column(df, H("Budget"))[i].n = 0 /\ Column(df, H("Actual"))[i].n # 0
    /\ \E i \in DOMAIN df.rows :
            Column(df, H("Budget"))[i].n = 12 /\ Column(df, H("Variance %"))[i].d # 1

RECURSIVE SumNumerators(_)
SumNumerators(series) ==
    IF series = <<>> THEN 0 ELSE Head(series).n + SumNumerators(Tail(series))

PastKPI == pc \in {"metrics", "chart"}

\* C5: the totals are the column sums, TotalVariance = TotalActual -
\* TotalBudget, and TotalVariancePercent is TotalVariance / TotalBudget * 100
\* when TotalBudget # 0 and the number 0 when TotalBudget = 0.
C5_Totals ==
    PastKPI =>
        /\ \A i \in DOMAIN df.rows :
                Column(df, H("Budget"))[i].d = 1 /\ Column(df, H("Actual"))[i].d = 1
        /\ total_budget = Num(SumNumerators(Column(df, H("Budget"))))
        /\ total_actual = Num(SumNumerators(Column(df, H("Actual"))))
        /\ total_variance = Num(total_actual.n - total_budget.n)
        /\ total_var_pct.t = "num"
        /\ total_budget.n = 0 => total_var_pct = Num(0)
        /\ total_budget.n # 0 =>
                total_var_pct.n * total_budget.n = total_variance.n * 100 * total_var_pct.d

C5_Witness ==
    /\ PastKPI
    /\ total_budget.n = 0 /\ total_variance.n # 0
    /\ \A i \in DOMAIN df.rows : Column(df, H("Budget"))[i].n # 0
    /\ Len(df.rows) = 2

\* Columns of the uploaded sheet other than Category, Budget and Actual.
Required == {required_cols[k] : k \in DOMAIN required_cols}

Header == uploaded_file.sheet.header

ExtraPositions == {j \in DOMAIN Header : strip(Header[j]) \notin Required}

CategoryPositions == {j \in DOMAIN Header : strip(Header[j]) = H("Category")}

Derived == {H("Variance"), H("Variance %")}

\* The displayed and the exported table hold the uploaded records, in
\* order, with the columns at the positions J unchanged.
SameAsUploaded(J) ==
    /\ HasKind("dataframe") =>
            /\ Len(shown.rows) = Len(uploaded_file.sheet.body)
            /\ \A i \in DOMAIN shown.rows : \A j \in J :
                    shown.rows[i][j] = read_excel(uploaded_file.sheet).rows[i][j]
    /\ HasKind("download_button") =>
            /\ Len(download.body) = Len(uploaded_file.sheet.body)
            /\ Len(download.header) =
                    Len(Header) + Cardinality({c \in Derived : \A j \in DOMAIN Header : strip(Header[j]) # c})
            /\ \A j \in DOMAIN Header : download.header[j] = strip(Header[j])
            /\ \A i \in DOMAIN download.body : \A j \in J :
                    download.body[i][j] = uploaded_file.sheet.body[i][j]

\* C9 as claimed: every Category value and every additional input column,
\* whatever its name, is the same in the displayed and exported table.
C9_FrameAllColumns == SameAsUploaded(CategoryPositions \cup ExtraPositions)

\* C9 amended: the same, for the additional input columns not named
\* Variance or Variance % (which the derived columns overwrite).
C9_FrameOtherColumns ==
    SameAsUploaded(CategoryPositions \cup {j \in ExtraPositions : strip(Header[j]) \notin Derived})

C9_Witness ==
    /\ pc = "done"
    /\ \E j \in ExtraPositions : Header[j].body = "Note"
    /\ Len(download.body) = MaxRows

\* The table the script derives from a sheet.
Augmented(sheet) ==
    LET d0 == read_excel(sheet)
        d1 == [d0 EXCEPT !.columns = [j \in DOMAIN d0.columns |-> strip(d0.columns[j])]]
        d2 == ConvertColumn(ConvertColumn(d1, H("Budget")), H("Actual"))
        d3 == SetColumn(d2, H("Variance"), VarianceSeries(d2))
    IN  SetColumn(d3, H("Variance %"), VariancePctSeries(d3))

MetricsOf(d) ==
    LET tb == SumSeq(Column(d, H("Budget")))
        ta == SumSeq(Column(d, H("Actual")))
        tv == Sub(ta, tb)
    IN  [budget |-> Fixed(tb, 0), actual |-> Fixed(ta, 0), variance |-> Fixed(tv, 0),
         delta |-> Fixed(TotalVarPct(tv, tb), 2)]

\* C10: the displayed table, the metrics, the chart input and the exported
\* table are functions of the uploaded sheet alone: library availability,
\* key, response and exception of the insight block do not enter them.
C10_InsightNoninterference ==
    LET d == Augmented(uploaded_file.sheet)
    IN  /\ HasKind("dataframe") => shown = d
        /\ HasKind("metric") => metrics = MetricsOf(d)
        /\ HasKind("plotly_chart") => chart = BarInput(d)
        /\ HasKind("download_button") => download = to_excel(d)

C10_Witness ==
    /\ pc = "done" /\ Has("write", "insight") /\ Len(requests) = 1
    /\ Len(download.body) = MaxRows /\ Len(download.header) = 5

====
